---- MODULE Spec2Model ----
(***************************************************************************)
(* Model of the apollo command line program: the main dispatcher, the      *)
(* daily auto-punch loop, sleep_until and the jittered punch target.       *)
(* Time is counted in seconds of local wall-clock time since local         *)
(* midnight of the day the process was started (day 0).                    *)
(***************************************************************************)
EXTENDS Integers, FiniteSets, Sequences, TLC

VARIABLES
    pc,              \* position of the single thread of control
    cmd,             \* the parsed SubCommands value
    exit_code,       \* None while running, else the process exit status
    now,             \* what Local::now() returns
    cycle,           \* number of calls of _do_auto_punch so far
    auth_data,       \* ApolloAgent.auth_data is Some(..)
    schedule,        \* local `schedule` of _do_auto_punch
    punch_in_time,   \* local `punch_in_time` of _do_auto_punch
    punch_out_time,  \* local `punch_out_time` of _do_auto_punch
    local_now,       \* local `now` of _do_auto_punch
    rollover,        \* the rollover target of auto_punch and when it was computed
    log,             \* what the current cycle has done so far
    jt               \* arguments and results of a WorkdaySchedule function called alone

vars == <<pc, cmd, exit_code, now, cycle, auth_data, schedule, punch_in_time,
          punch_out_time, local_now, rollover, log, jt>>

----------------------------------------------------------------------------
(* Bounds of the model *)

MaxCycles == 2      \* calls of _do_auto_punch that are explored
MaxDelay == 2       \* seconds a step, a request or an oversleep may take
MaxJitter == 3      \* explicit jitter bounds tried on the lone call

(* Program constants *)

DefaultJitter == 60
RolloverHour == 7
SecondsPerHour == 60 * 60
SecondsPerDay == 24 * SecondsPerHour

None == -1          \* Option::None of a time, a jitter or an exit status
Panic == -2         \* the call unwound instead of returning

PunchTypes == {"PunchIn", "PunchOut"}
Commands == {"init", "auto-punch", "punch-in", "punch-out", "calendar"}

Delays == {0, MaxDelay}

HMS(h, m, s) == h * SecondsPerHour + m * 60 + s

(* Wall-clock times of day at which the process may be started. *)
StartTimes == {HMS(8, 59, 30), HMS(18, 0, 30)}

(* Shifts the server may report for a day, as times of that day. *)
Shifts ==
    { [on |-> HMS(9, 0, 0),  off |-> HMS(18, 0, 0)],
      [on |-> HMS(15, 0, 0), off |-> HMS(23, 59, 30)],
      [on |-> None,          off |-> None],
      [on |-> HMS(9, 0, 0),  off |-> None],
      [on |-> None,          off |-> HMS(18, 0, 0)] }

----------------------------------------------------------------------------
(* chrono helpers *)

DateOf(t) == t \div SecondsPerDay

TimeOfDay(t) == t % SecondsPerDay

AtDate(d, tod) == IF tod = None THEN None ELSE d * SecondsPerDay + tod

NoSchedule == [date |-> None, work_on_time |-> None, work_off_time |-> None]

(* An is_work_day that wants both times *)
is_work_day_both(s) == s.work_on_time # None /\ s.work_off_time # None

(* WorkdaySchedule::from_json, for the entry of day d with shift s *)
FromJson(d, s) ==
    [date |-> d, work_on_time |-> AtDate(d, s.on), work_off_time |-> AtDate(d, s.off)]

is_work_day(s) == s.work_on_time # None \/ s.work_off_time # None

(* A gen_range that yields its high end when the range is empty *)
gen_range_unchecked(low, high) == IF low > high THEN {high} ELSE low..high

(* gen_range(0..=jitter_second): a range that starts one too low *)
gen_range_from_zero(low, high) == (low - 1)..high

(* rng.gen_range(1..=jitter_second): the values it may return *)
gen_range(low, high) == low..high

(* A get_punch_time_with_jitter that falls back to the other base time, *)
(* and to the schedule's date, when the one it needs is absent          *)
get_punch_time_or_default(s, punch_type, jitter) ==
    LET jitter_second == IF jitter = None THEN DefaultJitter ELSE jitter
        wanted == IF punch_type = "PunchIn" THEN s.work_on_time ELSE s.work_off_time
        other == IF punch_type = "PunchIn" THEN s.work_off_time ELSE s.work_on_time
        base == IF wanted # None THEN wanted
                ELSE IF other # None THEN other ELSE s.date * SecondsPerDay
    IN  IF gen_range(1, jitter_second) = {} THEN {Panic}
        ELSE { IF punch_type = "PunchIn" THEN base - j ELSE base + j :
                  j \in gen_range(1, jitter_second) }

(* The set of outcomes of get_punch_time_with_jitter: the timestamps it  *)
(* may return, or Panic when an unwrap fails or the range is empty.      *)
get_punch_time_with_jitter(s, punch_type, jitter) ==
    LET jitter_second == IF jitter = None THEN DefaultJitter ELSE jitter
        base == IF punch_type = "PunchIn" THEN s.work_on_time ELSE s.work_off_time
    IN  IF base = None THEN {Panic}
        ELSE IF gen_range(1, jitter_second) = {} THEN {Panic}
        ELSE { IF punch_type = "PunchIn" THEN base - j ELSE base + j :
                  j \in gen_range(1, jitter_second) }

(* A sleep_until that sleeps one second short of the target *)
sleep_until_short(target, n, over) ==
    LET to_target_duration == target - n
    IN  IF to_target_duration >= 1 THEN n + to_target_duration - 1 + over ELSE n

(* The time at which sleep_until(target) returns when it starts at n and *)
(* the thread oversleeps by over: to_std() fails on a negative duration. *)
sleep_until(target, n, over) ==
    LET to_target_duration == target - n
    IN  IF to_target_duration >= 0 THEN n + to_target_duration + over ELSE n

(* A rollover target without succ_opt(): 07:00 of the current date *)
RolloverTargetToday(n) == DateOf(n) * SecondsPerDay + HMS(RolloverHour, 0, 0)

(* Local::now().date_naive().succ_opt().and_hms_opt(7, 0, 0) *)
RolloverTarget(n) == (DateOf(n) + 1) * SecondsPerDay + HMS(RolloverHour, 0, 0)

----------------------------------------------------------------------------
(* The log of one cycle: the calendar date on which the cycle started and *)
(* what it has done so far                                                *)

EmptyLog ==
    [date     |-> None,
     logins   |-> 0,
     fetches  |-> 0,
     computed |-> 0,
     slept    |-> [k \in PunchTypes |-> FALSE],
     calls    |-> [k \in PunchTypes |-> 0],
     outcome  |-> [k \in PunchTypes |-> "none"],
     ended    |-> "no"]

StartLog(d) == [EmptyLog EXCEPT !.date = d]

NoRollover == [target |-> None, at |-> None]

JtIdle == [on |-> None, off |-> None, kind |-> "PunchIn", jitter |-> None,
           result |-> None, called |-> FALSE]

Init ==
    /\ pc = "main"
    /\ cmd \in Commands
    /\ exit_code = None
    /\ now \in StartTimes
    /\ cycle = 0
    /\ auth_data = FALSE
    /\ schedule = NoSchedule
    /\ punch_in_time = None
    /\ punch_out_time = None
    /\ local_now = None
    /\ rollover = NoRollover
    /\ log = EmptyLog
    /\ jt = JtIdle

----------------------------------------------------------------------------
(* main *)

Exit(code) ==
    /\ pc' = "exited"
    /\ exit_code' = code

(* main, SubCommands::Init: write_config_file; File::create may fail *)
MainInit ==
    /\ pc = "main"
    /\ cmd = "init"
    /\ \E created \in BOOLEAN : Exit(IF created THEN 0 ELSE 101)
    /\ UNCHANGED <<cmd, now, cycle, auth_data, schedule, punch_in_time,
                   punch_out_time, local_now, rollover, log, jt>>

(* ApolloAgent::login: auth_data is kept only when all three requests succeed *)
login(l, ok) ==
    /\ auth_data' = (auth_data \/ ok)
    /\ log' = [l EXCEPT !.logins = @ + (IF ok THEN 1 ELSE 0),
                        !.ended = IF ok THEN @ ELSE "login_failed"]

(* A main that prints the error of prepare_agent's login and goes on *)
PrepareAgentKeepsGoing ==
    /\ pc = "main"
    /\ cmd # "init"
    /\ \E config_ok \in BOOLEAN, login_ok \in BOOLEAN :
          IF ~config_ok
          THEN /\ Exit(255)
               /\ log' = [log EXCEPT !.ended = "config_failed"]
               /\ UNCHANGED auth_data
          ELSE /\ login(log, login_ok)
               /\ pc' = "dispatch"
               /\ UNCHANGED exit_code
    /\ UNCHANGED <<cmd, now, cycle, schedule, punch_in_time, punch_out_time,
                   local_now, rollover, jt>>

(* main, every other command: prepare_agent, and exit(-1) when it fails *)
PrepareAgent ==
    /\ pc = "main"
    /\ cmd # "init"
    /\ \E config_ok \in BOOLEAN, login_ok \in BOOLEAN :
          IF ~config_ok
          THEN /\ Exit(255)
               /\ log' = [log EXCEPT !.ended = "config_failed"]
               /\ UNCHANGED auth_data
          ELSE /\ login(log, login_ok)
               /\ IF login_ok
                  THEN /\ pc' = "dispatch"
                       /\ UNCHANGED exit_code
                  ELSE Exit(255)
    /\ UNCHANGED <<cmd, now, cycle, schedule, punch_in_time, punch_out_time,
                   local_now, rollover, jt>>

(* A _do_punch that calls punch_card again when the first call fails *)
_do_punch_retry(punch_type, ok) ==
    [log EXCEPT !.calls[punch_type] = @ + (IF ok THEN 1 ELSE 2),
                !.outcome[punch_type] = IF ok THEN "ok" ELSE "err"]

(* _do_punch: one punch_card call; an Err is printed and dropped *)
_do_punch(punch_type, ok) ==
    [log EXCEPT !.calls[punch_type] = @ + 1,
                !.outcome[punch_type] = IF ok THEN "ok" ELSE "err"]

(* A main whose two punch arms pass each other's PunchType *)
MainPunchSwapped ==
    /\ pc = "dispatch"
    /\ cmd \in {"punch-in", "punch-out"}
    /\ \E ok \in BOOLEAN :
          log' = _do_punch(IF cmd = "punch-in" THEN "PunchOut" ELSE "PunchIn", ok)
    /\ Exit(0)
    /\ UNCHANGED <<cmd, now, cycle, auth_data, schedule, punch_in_time,
                   punch_out_time, local_now, rollover, jt>>

(* main, SubCommands::PunchIn and SubCommands::PunchOut *)
MainPunch ==
    /\ pc = "dispatch"
    /\ cmd \in {"punch-in", "punch-out"}
    /\ \E ok \in BOOLEAN :
          log' = _do_punch(IF cmd = "punch-in" THEN "PunchIn" ELSE "PunchOut", ok)
    /\ Exit(0)
    /\ UNCHANGED <<cmd, now, cycle, auth_data, schedule, punch_in_time,
                   punch_out_time, local_now, rollover, jt>>

(* main, SubCommands::Calendar: print_calendars unwraps the fetch *)
MainCalendar ==
    /\ pc = "dispatch"
    /\ cmd = "calendar"
    /\ \E ok \in BOOLEAN :
          /\ log' = [log EXCEPT !.fetches = @ + 1]
          /\ Exit(IF ok THEN 0 ELSE 101)
    /\ UNCHANGED <<cmd, now, cycle, auth_data, schedule, punch_in_time,
                   punch_out_time, local_now, rollover, jt>>

(* main, SubCommands::AutoPunch: enter the loop of auto_punch *)
MainAutoPunch ==
    /\ pc = "dispatch"
    /\ cmd = "auto-punch"
    /\ pc' = "cycle_start"
    /\ UNCHANGED <<cmd, exit_code, now, cycle, auth_data, schedule, punch_in_time,
                   punch_out_time, local_now, rollover, log, jt>>

----------------------------------------------------------------------------
(* auto_punch and _do_auto_punch *)

Target(k) == IF k = "PunchIn" THEN punch_in_time ELSE punch_out_time

(* A cycle that logs in only when the agent holds no auth_data yet *)
CycleLoginLazy ==
    /\ pc = "cycle_start"
    /\ cycle < MaxCycles
    /\ cycle' = cycle + 1
    /\ IF auth_data
       THEN /\ log' = StartLog(DateOf(now))
            /\ pc' = "fetch"
            /\ UNCHANGED <<exit_code, auth_data>>
       ELSE \E ok \in BOOLEAN :
               /\ login(StartLog(DateOf(now)), ok)
               /\ IF ok
                  THEN /\ pc' = "fetch"
                       /\ UNCHANGED exit_code
                  ELSE Exit(101)
    /\ UNCHANGED <<cmd, now, schedule, punch_in_time, punch_out_time, local_now,
                   rollover, jt>>

(* _do_auto_punch, entry: agent.login().unwrap() *)
CycleLogin ==
    /\ pc = "cycle_start"
    /\ cycle < MaxCycles
    /\ cycle' = cycle + 1
    /\ \E ok \in BOOLEAN :
          /\ login(StartLog(DateOf(now)), ok)
          /\ IF ok
             THEN /\ pc' = "fetch"
                  /\ UNCHANGED exit_code
             ELSE Exit(101)
    /\ UNCHANGED <<cmd, now, schedule, punch_in_time, punch_out_time, local_now,
                   rollover, jt>>

(* A fetch that takes the first entry of the month when today has none *)
CycleFetchAnyEntry ==
    /\ pc = "fetch"
    /\ \E reply \in {"err", "no_entry", "entry"}, s \in Shifts :
          LET today == DateOf(now)
          IN  IF reply = "err"
              THEN /\ log' = [log EXCEPT !.fetches = @ + 1, !.ended = "fetch_failed"]
                   /\ Exit(101)
                   /\ UNCHANGED schedule
              ELSE /\ schedule' = FromJson(today, s)
                   /\ log' = [log EXCEPT !.fetches = @ + 1,
                                         !.ended = IF reply = "no_entry" THEN "no_entry"
                                                   ELSE @]
                   /\ pc' = "work_day_check"
                   /\ UNCHANGED exit_code
    /\ UNCHANGED <<cmd, now, cycle, auth_data, punch_in_time, punch_out_time,
                   local_now, rollover, jt>>

(* _do_auto_punch: agent.get_today_schedule().unwrap(). The request fails, *)
(* or the month's entries hold none for today, or today's entry is s.      *)
CycleFetch ==
    /\ pc = "fetch"
    /\ \E reply \in {"err", "no_entry", "entry"}, s \in Shifts :
          LET today == DateOf(now)
          IN  IF reply = "entry"
              THEN /\ schedule' = FromJson(today, s)
                   /\ log' = [log EXCEPT !.fetches = @ + 1]
                   /\ pc' = "work_day_check"
                   /\ UNCHANGED exit_code
              ELSE /\ log' = [log EXCEPT !.fetches = @ + 1,
                                         !.ended = IF reply = "err" THEN "fetch_failed"
                                                   ELSE "no_entry"]
                   /\ Exit(101)
                   /\ UNCHANGED schedule
    /\ UNCHANGED <<cmd, now, cycle, auth_data, punch_in_time, punch_out_time,
                   local_now, rollover, jt>>

(* A work-day check that reports the day off but does not return *)
WorkDayCheckNoReturn ==
    /\ pc = "work_day_check"
    /\ pc' = "compute"
    /\ log' = [log EXCEPT !.ended = IF ~is_work_day(schedule) THEN "not_work_day" ELSE @]
    /\ UNCHANGED <<cmd, exit_code, now, cycle, auth_data, schedule, punch_in_time,
                   punch_out_time, local_now, rollover, jt>>

(* _do_auto_punch: the is_work_day check and its early return *)
WorkDayCheck ==
    /\ pc = "work_day_check"
    /\ IF ~is_work_day(schedule)
       THEN /\ pc' = "rollover"
            /\ log' = [log EXCEPT !.ended = "not_work_day"]
       ELSE /\ pc' = "compute"
            /\ UNCHANGED log
    /\ UNCHANGED <<cmd, exit_code, now, cycle, auth_data, schedule, punch_in_time,
                   punch_out_time, local_now, rollover, jt>>

(* _do_auto_punch: the two get_punch_time_with_jitter calls, jitter None *)
ComputeTargets ==
    /\ pc = "compute"
    /\ \E tin \in get_punch_time_with_jitter(schedule, "PunchIn", None) :
          IF tin = Panic
          THEN /\ Exit(101)
               /\ log' = [log EXCEPT !.ended = "panic"]
               /\ UNCHANGED <<punch_in_time, punch_out_time>>
          ELSE \E tout \in get_punch_time_with_jitter(schedule, "PunchOut", None) :
                  IF tout = Panic
                  THEN /\ Exit(101)
                       /\ log' = [log EXCEPT !.computed = 1, !.ended = "panic"]
                       /\ UNCHANGED <<punch_in_time, punch_out_time>>
                  ELSE /\ punch_in_time' = tin
                       /\ punch_out_time' = tout
                       /\ log' = [log EXCEPT !.computed = 2]
                       /\ pc' = "punch_in"
                       /\ UNCHANGED exit_code
    /\ UNCHANGED <<cmd, now, cycle, auth_data, schedule, local_now, rollover, jt>>

(* Phase positions with the punch-out phase placed first *)
PhasePcSwapped(k) == IF k = "PunchIn" THEN "punch_out" ELSE "punch_in"

PhasePc(k) == IF k = "PunchIn" THEN "punch_in" ELSE "punch_out"
SleepPc(k) == IF k = "PunchIn" THEN "sleep_in" ELSE "sleep_out"
SendPc(k) == IF k = "PunchIn" THEN "send_in" ELSE "send_out"
AfterPc(k) == IF k = "PunchIn" THEN "punch_out" ELSE "rollover"

(* A phase that never takes the elapsed-target branch *)
DueAlways(n, target) == TRUE

(* A comparison that still punches when now equals the target *)
DueOrEqual(n, target) == n <= target

(* The comparison that opens a phase: punch when now < target, else skip *)
Due(n, target) == n < target

(* _do_auto_punch: now = Local::now() and the test that opens a phase *)
PhaseCheck(k) ==
    /\ pc = PhasePc(k)
    /\ local_now' = now
    /\ IF Due(now, Target(k))
       THEN /\ pc' = SleepPc(k)
            /\ UNCHANGED log
       ELSE /\ pc' = AfterPc(k)
            /\ log' = [log EXCEPT !.outcome[k] = "skipped",
                                  !.ended = IF k = "PunchOut" THEN "returned" ELSE @]
    /\ \E d \in Delays : now' = now + d
    /\ UNCHANGED <<cmd, exit_code, cycle, auth_data, schedule, punch_in_time,
                   punch_out_time, rollover, jt>>

(* _do_auto_punch: sleep_until(&punch_in_time) / sleep_until(&punch_out_time) *)
PhaseSleep(k) ==
    /\ pc = SleepPc(k)
    /\ \E over \in Delays : now' = sleep_until(Target(k), now, over)
    /\ log' = [log EXCEPT !.slept[k] = TRUE]
    /\ pc' = SendPc(k)
    /\ UNCHANGED <<cmd, exit_code, cycle, auth_data, schedule, punch_in_time,
                   punch_out_time, local_now, rollover, jt>>

(* A punch whose Err is unwrapped instead of printed *)
PhasePunchUnwrap(k) ==
    /\ pc = SendPc(k)
    /\ \E ok \in BOOLEAN :
          /\ log' = [_do_punch(k, ok) EXCEPT
                        !.ended = IF k = "PunchOut" THEN "returned" ELSE @]
          /\ IF ok
             THEN /\ pc' = AfterPc(k)
                  /\ UNCHANGED exit_code
             ELSE Exit(101)
    /\ \E d \in Delays : now' = now + d
    /\ UNCHANGED <<cmd, cycle, auth_data, schedule, punch_in_time,
                   punch_out_time, local_now, rollover, jt>>

(* _do_auto_punch: _do_punch(agent, kind) after the sleep *)
PhasePunch(k) ==
    /\ pc = SendPc(k)
    /\ \E ok \in BOOLEAN :
          log' = [_do_punch(k, ok) EXCEPT
                     !.ended = IF k = "PunchOut" THEN "returned" ELSE @]
    /\ \E d \in Delays : now' = now + d
    /\ pc' = AfterPc(k)
    /\ UNCHANGED <<cmd, exit_code, cycle, auth_data, schedule, punch_in_time,
                   punch_out_time, local_now, rollover, jt>>

(* auto_punch: _do_auto_punch has returned; the rollover target is computed *)
(* from Local::now() and the locals of _do_auto_punch are gone              *)
RolloverCompute ==
    /\ pc = "rollover"
    /\ rollover' = [target |-> RolloverTarget(now), at |-> now]
    /\ schedule' = NoSchedule
    /\ punch_in_time' = None
    /\ punch_out_time' = None
    /\ local_now' = None
    /\ pc' = "rollover_sleep"
    /\ \E d \in Delays : now' = now + d
    /\ UNCHANGED <<cmd, exit_code, cycle, auth_data, log, jt>>

(* auto_punch: sleep_until(the rollover target), then the loop goes round *)
RolloverSleep ==
    /\ pc = "rollover_sleep"
    /\ \E over \in Delays : now' = sleep_until(rollover.target, now, over)
    /\ rollover' = NoRollover
    /\ pc' = "cycle_start"
    /\ UNCHANGED <<cmd, exit_code, cycle, auth_data, schedule, punch_in_time,
                   punch_out_time, local_now, log, jt>>

Next ==
    \/ MainInit
    \/ PrepareAgent
    \/ MainPunch
    \/ MainCalendar
    \/ MainAutoPunch
    \/ CycleLogin
    \/ CycleFetch
    \/ WorkDayCheck
    \/ ComputeTargets
    \/ \E k \in PunchTypes : PhaseCheck(k)
    \/ \E k \in PunchTypes : PhaseSleep(k)
    \/ \E k \in PunchTypes : PhasePunch(k)
    \/ RolloverCompute
    \/ RolloverSleep

Spec == Init /\ [][Next]_vars

----------------------------------------------------------------------------
(* get_punch_time_with_jitter called on its own, on any schedule, with any *)
(* punch type and any jitter argument                                      *)

BaseTimes == {None, HMS(9, 0, 0), HMS(18, 0, 0)}

JitterArgs == {None} \cup (0..MaxJitter)

InitJitter ==
    /\ pc = "lone_call"
    /\ cmd = "none"
    /\ exit_code = None
    /\ now = 0
    /\ cycle = 0
    /\ auth_data = FALSE
    /\ schedule = NoSchedule
    /\ punch_in_time = None
    /\ punch_out_time = None
    /\ local_now = None
    /\ rollover = NoRollover
    /\ log = EmptyLog
    /\ \E on \in BaseTimes, off \in BaseTimes, kind \in PunchTypes, jitter \in JitterArgs :
          jt = [on |-> on, off |-> off, kind |-> kind, jitter |-> jitter,
                result |-> None, called |-> FALSE]

JitterCall ==
    /\ pc = "lone_call"
    /\ ~jt.called
    /\ \E r \in get_punch_time_with_jitter(
                   [date |-> 0, work_on_time |-> jt.on, work_off_time |-> jt.off],
                   jt.kind, jt.jitter) :
          jt' = [jt EXCEPT !.result = r, !.called = TRUE]
    /\ UNCHANGED <<pc, cmd, exit_code, now, cycle, auth_data, schedule, punch_in_time,
                   punch_out_time, local_now, rollover, log>>

NextJitter == JitterCall

SpecJitter == InitJitter /\ [][NextJitter]_vars

----------------------------------------------------------------------------
(* WorkdaySchedule::from_json, is_work_day and the Display of a schedule,  *)
(* called on their own on one calendar entry of the server's reply.        *)
(* Strings are strings; a JSON value is a record with its kind. Times are  *)
(* seconds of local time since 2023-01-01T00:00:00 local, and the entries  *)
(* tried lie in January 2023.                                              *)

LocalOffsetHours == 8

(* The two labels of description(); the source has three-character CJK    *)
(* literals here, written in ASCII in this module.                        *)
WorkDayLabel == "work-day"
HolidayLabel == "holiday"

JNull == [kind |-> "null"]
JNumber == [kind |-> "number"]
JStr(x) == [kind |-> "string", str |-> x]

(* serde_json's Value index: Null when the value is no object *)
Field(v, name) == IF v.kind = "object" THEN v[name] ELSE JNull

Digits == "0123456789"

Char(str, i) == SubSeq(str, i, i)

IsDigit(c) == \E i \in 1..10 : Char(Digits, i) = c

DigitVal(c) == CHOOSE i \in 0..9 : Char(Digits, i + 1) = c

Pad2(n) == Char(Digits, (n \div 10) + 1) \o Char(Digits, (n % 10) + 1)

Num2(str, i) == 10 * DigitVal(Char(str, i)) + DigitVal(Char(str, i + 1))

(* str::split_once('T'): the position of the first 'T', 0 when there is none *)
FirstT(str) ==
    IF \E i \in 1..Len(str) : Char(str, i) = "T"
    THEN CHOOSE i \in 1..Len(str) :
            /\ Char(str, i) = "T"
            /\ \A j \in 1..(i - 1) : Char(str, j) # "T"
    ELSE 0

(* DateTime::parse_from_rfc3339 accepts "2023-01-DDThh:mm:ss+HH:00" *)
IsRfc3339(str) ==
    /\ Len(str) = 25
    /\ SubSeq(str, 1, 8) = "2023-01-"
    /\ \A i \in {9, 10, 12, 13, 15, 16, 18, 19, 21, 22} : IsDigit(Char(str, i))
    /\ Char(str, 11) = "T"
    /\ Char(str, 14) = ":"
    /\ Char(str, 17) = ":"
    /\ Char(str, 20) \in {"+", "-"}
    /\ SubSeq(str, 23, 25) = ":00"
    /\ Num2(str, 9) \in 1..31
    /\ Num2(str, 12) < 24
    /\ Num2(str, 15) < 60
    /\ Num2(str, 18) < 60
    /\ Num2(str, 21) < 24

(* parse_from_rfc3339(..).with_timezone(&Local): the instant, as local time *)
ParseRfc3339(str) ==
    LET offset == (IF Char(str, 20) = "+" THEN 1 ELSE -1) * Num2(str, 21) * SecondsPerHour
    IN  (Num2(str, 9) - 1) * SecondsPerDay
           + HMS(Num2(str, 12), Num2(str, 15), Num2(str, 18))
           - offset + LocalOffsetHours * SecondsPerHour

(* DateTime<Local>::to_rfc3339 *)
to_rfc3339(t) ==
    LET tod == TimeOfDay(t)
    IN  "2023-01-" \o Pad2(DateOf(t) + 1) \o "T"
           \o Pad2(tod \div SecondsPerHour) \o ":"
           \o Pad2((tod % SecondsPerHour) \div 60) \o ":"
           \o Pad2(tod % 60)
           \o "+" \o Pad2(LocalOffsetHours) \o ":00"

(* A parse_as_local_time that reads a null time as the epoch *)
parse_as_local_time_or_epoch(v) ==
    IF v.kind # "string" THEN 0
    ELSE IF IsRfc3339(v.str) THEN ParseRfc3339(v.str) ELSE Panic

(* parse_as_local_time: None unless the value is a string; the parse is *)
(* unwrapped                                                            *)
parse_as_local_time(v) ==
    IF v.kind # "string" THEN None
    ELSE IF IsRfc3339(v.str) THEN ParseRfc3339(v.str) ELSE Panic

NoMemo == [some |-> FALSE, str |-> ""]

NoWs == [date |-> "", work_on_time |-> None, work_off_time |-> None, memo |-> NoMemo]

(* WorkdaySchedule::from_json: the schedule built, or ok = FALSE when one *)
(* of its unwraps panics                                                 *)
from_json(json) ==
    LET Date == Field(json, "Date")
        t == IF Date.kind = "string" THEN FirstT(Date.str) ELSE 0
        work_on_time == parse_as_local_time(Field(Field(json, "ShiftSchedule"), "WorkOnTime"))
        work_off_time == parse_as_local_time(Field(Field(json, "ShiftSchedule"), "WorkOffTime"))
        EventMemo == Field(Field(json, "CalendarEvent"), "EventMemo")
        memo == IF EventMemo.kind = "string"
                THEN [some |-> TRUE, str |-> EventMemo.str] ELSE NoMemo
    IN  IF t = 0 \/ work_on_time = Panic \/ work_off_time = Panic
        THEN [ok |-> FALSE, ws |-> NoWs]
        ELSE [ok |-> TRUE,
              ws |-> [date |-> SubSeq(Date.str, 1, t - 1),
                      work_on_time |-> work_on_time,
                      work_off_time |-> work_off_time,
                      memo |-> memo]]

(* A description that appends the memo without its parentheses *)
description_bare_memo(ws) ==
    (IF is_work_day(ws) THEN WorkDayLabel ELSE HolidayLabel)
       \o (IF ws.memo.some THEN ws.memo.str ELSE "")

(* WorkdaySchedule::description *)
description(ws) ==
    (IF is_work_day(ws) THEN WorkDayLabel ELSE HolidayLabel)
       \o (IF ws.memo.some THEN "(" \o ws.memo.str \o ")" ELSE "")

(* impl Display for WorkdaySchedule *)
Display(ws) ==
    ws.date \o " " \o description(ws)
       \o " " \o (IF ws.work_on_time = None THEN "N/A" ELSE to_rfc3339(ws.work_on_time))
       \o " " \o (IF ws.work_off_time = None THEN "N/A" ELSE to_rfc3339(ws.work_off_time))

(* The calendar entries tried *)
JsonDates ==
    { JStr("2023-01-03T00:00:00+00:00"), JStr("0103T00T00"), JStr("2023-01-03"), JNull }

JsonTimes ==
    { JNull, JNumber, JStr("2023-01-03T01:00:00+00:00"),
      JStr("2023-01-03T10:00:00+00:00"), JStr("09:00") }

JsonShifts ==
    {JNull} \cup { [kind |-> "object", WorkOnTime |-> a, WorkOffTime |-> b] :
                      a \in JsonTimes, b \in JsonTimes }

JsonEvents ==
    {JNull} \cup { [kind |-> "object", EventMemo |-> m] :
                      m \in {JNull, JStr("makeup"), JStr("New Year")} }

InitSchedule ==
    /\ pc = "lone_schedule"
    /\ cmd = "none"
    /\ exit_code = None
    /\ now = 0
    /\ cycle = 0
    /\ auth_data = FALSE
    /\ schedule = NoSchedule
    /\ punch_in_time = None
    /\ punch_out_time = None
    /\ local_now = None
    /\ rollover = NoRollover
    /\ log = EmptyLog
    /\ \E d \in JsonDates, sh \in JsonShifts, ev \in JsonEvents :
          jt = [json |-> [kind |-> "object", Date |-> d, ShiftSchedule |-> sh,
                          CalendarEvent |-> ev],
                step |-> "json", ws |-> NoWs, work_day |-> FALSE, text |-> ""]

FromJsonCall ==
    /\ pc = "lone_schedule"
    /\ jt.step = "json"
    /\ LET r == from_json(jt.json)
       IN  jt' = [jt EXCEPT !.step = IF r.ok THEN "built" ELSE "panicked", !.ws = r.ws]
    /\ UNCHANGED <<pc, cmd, exit_code, now, cycle, auth_data, schedule, punch_in_time,
                   punch_out_time, local_now, rollover, log>>

IsWorkDayCall ==
    /\ pc = "lone_schedule"
    /\ jt.step = "built"
    /\ jt' = [jt EXCEPT !.step = "checked", !.work_day = is_work_day(jt.ws)]
    /\ UNCHANGED <<pc, cmd, exit_code, now, cycle, auth_data, schedule, punch_in_time,
                   punch_out_time, local_now, rollover, log>>

DisplayCall ==
    /\ pc = "lone_schedule"
    /\ jt.step = "checked"
    /\ jt' = [jt EXCEPT !.step = "shown", !.text = Display(jt.ws)]
    /\ UNCHANGED <<pc, cmd, exit_code, now, cycle, auth_data, schedule, punch_in_time,
                   punch_out_time, local_now, rollover, log>>

NextSchedule ==
    \/ FromJsonCall
    \/ IsWorkDayCall
    \/ DisplayCall

SpecSchedule == InitSchedule /\ [][NextSchedule]_vars

----------------------------------------------------------------------------
(* Properties of the daily loop *)

InCycle == cmd = "auto-punch" /\ cycle >= 1

(* The local `now` holds the time read at the start of phase k from the *)
(* test of that phase until the next phase reads the clock again.       *)
PhaseRead(k) == pc \in {SleepPc(k), SendPc(k), AfterPc(k)}

CycleFailures == {"login_failed", "fetch_failed", "no_entry"}

NoPunchWork ==
    /\ log.computed = 0
    /\ punch_in_time = None
    /\ punch_out_time = None
    /\ \A k \in PunchTypes :
          log.calls[k] = 0 /\ log.outcome[k] = "none" /\ ~log.slept[k]

(* C1: in the daily loop, a phase whose current time, read at the start of *)
(* the phase, is already past the computed target is reported as skipped,  *)
(* and punch_card is not invoked for that phase in that cycle.             *)
C1_PastTargetIsSkipped ==
    InCycle =>
        \A k \in PunchTypes :
            /\ (PhaseRead(k) /\ local_now > Target(k))
                  => (log.outcome[k] = "skipped" /\ log.calls[k] = 0 /\ ~log.slept[k])
            /\ log.outcome[k] = "skipped" => log.calls[k] = 0

C1_Witness ==
    /\ InCycle
    /\ pc = "rollover"
    /\ local_now > punch_out_time
    /\ log.outcome["PunchIn"] = "skipped"
    /\ log.outcome["PunchOut"] = "skipped"

(* C2: in the daily loop, a phase whose current time, read at the start of *)
(* the phase, is before the target sleeps and then invokes punch_card      *)
(* exactly once in that cycle, whether the call succeeds or fails.         *)
C2_BeforeTargetPunchesOnce ==
    InCycle =>
        \A k \in PunchTypes :
            /\ log.calls[k] <= 1
            /\ (PhaseRead(k) /\ local_now < Target(k))
                  => /\ pc = SleepPc(k) => (~log.slept[k] /\ log.calls[k] = 0)
                     /\ pc = SendPc(k) => (log.slept[k] /\ log.calls[k] = 0)
                     /\ pc = AfterPc(k)
                           => /\ log.slept[k]
                              /\ log.calls[k] = 1
                              /\ log.outcome[k] \in {"ok", "err"}
            /\ log.outcome[k] \in {"ok", "err"} => (log.slept[k] /\ log.calls[k] = 1)

C2_Witness ==
    /\ InCycle
    /\ pc = "rollover"
    /\ log.outcome["PunchIn"] = "err"
    /\ log.calls["PunchIn"] = 1
    /\ local_now < punch_out_time
    /\ log.outcome["PunchOut"] = "ok"
    /\ log.calls["PunchOut"] = 1

(* C3: sleep_until returns only when the current time is at or after the  *)
(* target, and at once when the target has already passed; so no punch of *)
(* either kind is submitted at a time earlier than its computed target.   *)
C3_SleepReachesTarget ==
    /\ [](\A k \in PunchTypes : (InCycle /\ pc = SendPc(k)) => now >= Target(k))
    /\ [][\A k \in PunchTypes :
             pc = SleepPc(k) =>
                 /\ now' >= Target(k)
                 /\ now > Target(k) => now' = now]_vars
    /\ [][pc = "rollover_sleep" =>
             /\ now' >= rollover.target
             /\ now > rollover.target => now' = now]_vars

C3_Witness ==
    /\ InCycle
    /\ pc = "send_out"
    /\ local_now < punch_out_time
    /\ now = punch_out_time
    /\ log.calls["PunchIn"] = 1

(* C4: with a jitter bound J >= 1 (60 when none is given),                 *)
(* get_punch_time_with_jitter returns a time in [T - J, T - 1] for PunchIn *)
(* with work_on_time = T and in [T + 1, T + J] for PunchOut with           *)
(* work_off_time = T.                                                      *)
C4_TargetWithinJitter ==
    LET J == IF jt.jitter = None THEN 60 ELSE jt.jitter
    IN  (jt.called /\ J >= 1) =>
           /\ (jt.kind = "PunchIn" /\ jt.on # None)
                 => (jt.on - J <= jt.result /\ jt.result <= jt.on - 1)
           /\ (jt.kind = "PunchOut" /\ jt.off # None)
                 => (jt.off + 1 <= jt.result /\ jt.result <= jt.off + J)

C4_Witness ==
    /\ jt.called
    /\ jt.jitter = None
    /\ jt.kind = "PunchOut"
    /\ jt.off # None
    /\ jt.result = jt.off + 60

(* C5: a cycle whose fetched schedule is not a work day computes no punch *)
(* target, never invokes punch_card and goes directly to the rollover.    *)
C5_NonWorkDaySkipsToRollover ==
    InCycle =>
        /\ (schedule # NoSchedule /\ ~is_work_day(schedule) /\ pc # "work_day_check")
              => (pc = "rollover" /\ NoPunchWork)
        /\ log.ended = "not_work_day"
              => (pc \in {"rollover", "rollover_sleep", "cycle_start"} /\ NoPunchWork)

C5_Witness ==
    /\ InCycle
    /\ pc = "rollover_sleep"
    /\ log.ended = "not_work_day"
    /\ log.fetches = 1

(* C6: every cycle begins with a login, before the schedule fetch and     *)
(* before any punch of the cycle: nothing is fetched or punched in a      *)
(* cycle in which no login has succeeded.                                 *)
C6_CycleStartsWithLogin ==
    InCycle =>
        \/ log.logins = 1
        \/ /\ log.logins = 0
           /\ log.ended = "login_failed"
           /\ log.fetches = 0
           /\ schedule = NoSchedule
           /\ NoPunchWork

C6_Witness ==
    /\ InCycle
    /\ cycle = 2
    /\ pc = "send_in"
    /\ log.logins = 1
    /\ log.fetches = 1

(* C7: inside the loop, a failed login, a failed schedule fetch or a      *)
(* missing entry for today ends only that day's processing: the process   *)
(* goes on to the rollover wait and is not terminated.                    *)
C7_CycleFailureKeepsProcess ==
    (InCycle /\ log.ended \in CycleFailures) => exit_code = None

(* C8: in a cycle in which the login fails, the schedule fetch fails or   *)
(* no fetched entry has today's date, no punch target is computed and no  *)
(* punch of either kind is submitted.                                     *)
C8_FailedCycleDoesNotPunch ==
    (InCycle /\ log.ended \in CycleFailures) => NoPunchWork

C8_Witness ==
    /\ InCycle
    /\ cycle = 2
    /\ log.ended = "no_entry"
    /\ log.logins = 1
    /\ log.fetches = 1

C10_RolloverNextDaySeven ==
    pc = "rollover_sleep" =>
        /\ rollover.target > rollover.at
        /\ DateOf(rollover.target) = DateOf(rollover.at) + 1
        /\ TimeOfDay(rollover.target) = 7 * 60 * 60

C10_Witness ==
    /\ pc = "rollover_sleep"
    /\ TimeOfDay(rollover.at) < 7 * 60 * 60
    /\ log.calls["PunchOut"] = 1

(* C11: one iteration of the loop is one calendar day: the cycle that     *)
(* follows a cycle started on date D starts on date D + 1, also when the  *)
(* punch-out target or the punch-out wait ends after midnight of D.       *)
C11_NextCycleNextDay ==
    (InCycle /\ pc = "cycle_start") => DateOf(now) = log.date + 1

(* C12: in the daily loop, once the fetched schedule has passed the       *)
(* is_work_day check, computing the two targets never hits the fatal      *)
(* missing-base-time case.                                                *)
C12_WorkDayTargetsNeverPanic ==
    (InCycle /\ is_work_day(schedule)) => log.ended # "panic"

(* C13: get_punch_time_with_jitter called for a kind whose base time is   *)
(* absent fails fatally and returns no timestamp.                         *)
C13_AbsentBasePanics ==
    LET base == IF jt.kind = "PunchIn" THEN jt.on ELSE jt.off
    IN  (jt.called /\ base = None) => jt.result = Panic

C13_Witness ==
    /\ jt.called
    /\ jt.kind = "PunchIn"
    /\ jt.on = None
    /\ jt.off # None
    /\ jt.jitter = None
    /\ jt.result = Panic

(* C14: with a jitter bound of 0, get_punch_time_with_jitter never        *)
(* returns exactly the base time T: the call is refused, or the bound is  *)
(* taken as 1.                                                            *)
C14_ZeroJitterNeverBase ==
    LET base == IF jt.kind = "PunchIn" THEN jt.on ELSE jt.off
    IN  (jt.called /\ jt.jitter = 0 /\ base # None) =>
           /\ jt.result # base
           /\ \/ jt.result = Panic
              \/ jt.kind = "PunchIn" /\ jt.result = base - 1
              \/ jt.kind = "PunchOut" /\ jt.result = base + 1

C14_Witness ==
    /\ jt.called
    /\ jt.jitter = 0
    /\ jt.kind = "PunchOut"
    /\ jt.off # None
    /\ jt.result = Panic

(* C16: the loop of auto-punch has no termination condition: it never     *)
(* exits normally, and while every login and every schedule fetch         *)
(* succeeds it goes round again after each rollover wait.                 *)
C16_LoopEndsOnlyByFailure ==
    InCycle =>
        /\ exit_code # 0
        /\ pc = "exited" => log.ended \in CycleFailures

(* C17: for every command other than init, a failed load of the           *)
(* credential file or a failed initial login makes the process exit with  *)
(* a non-zero code, with no schedule fetched and no punch submitted.      *)
C17_PrepareFailureExits ==
    (cycle = 0 /\ log.ended \in {"config_failed", "login_failed"}) =>
        /\ cmd # "init"
        /\ pc = "exited"
        /\ exit_code \notin {None, 0}
        /\ log.fetches = 0
        /\ schedule = NoSchedule
        /\ \A k \in PunchTypes : log.calls[k] = 0

C17_Witness ==
    /\ cmd = "punch-in"
    /\ log.ended = "login_failed"
    /\ pc = "exited"
    /\ exit_code = 255

(* C18: punch-in and punch-out do one login and then one punch of their   *)
(* own kind, after which the process ends: they do not loop, fetch no     *)
(* schedule, and neither wait nor roll over.                              *)
C18_OneShotPunch ==
    LET own == IF cmd = "punch-in" THEN "PunchIn" ELSE "PunchOut"
        other == IF cmd = "punch-in" THEN "PunchOut" ELSE "PunchIn"
    IN  cmd \in {"punch-in", "punch-out"} =>
           /\ cycle = 0
           /\ log.fetches = 0
           /\ log.logins <= 1
           /\ log.calls[own] <= 1
           /\ log.calls[other] = 0
           /\ \A k \in PunchTypes : ~log.slept[k]
           /\ rollover = NoRollover
           /\ pc \in {"main", "dispatch", "exited"}
           /\ pc = "dispatch" => (log.logins = 1 /\ log.calls[own] = 0)
           /\ log.calls[own] = 1 => (log.logins = 1 /\ pc = "exited" /\ exit_code = 0)
           /\ (pc = "exited" /\ log.ended = "no") => log.calls[own] = 1

C18_Witness ==
    /\ cmd = "punch-out"
    /\ pc = "exited"
    /\ exit_code = 0
    /\ log.logins = 1
    /\ log.calls["PunchOut"] = 1
    /\ log.outcome["PunchOut"] = "err"

(* C15: is_work_day() is false exactly when the schedule has neither a     *)
(* work-on nor a work-off time, and true when either of them is present.   *)
C15_WorkDayIffSomeTime ==
    jt.step \in {"checked", "shown"} =>
        /\ jt.work_day = FALSE <=> (jt.ws.work_on_time = None /\ jt.ws.work_off_time = None)
        /\ (jt.ws.work_on_time # None \/ jt.ws.work_off_time # None) => jt.work_day = TRUE

C15_Witness ==
    /\ jt.step = "checked"
    /\ jt.ws.work_on_time # None
    /\ jt.ws.work_off_time = None
    /\ jt.work_day = TRUE

(* C19: a schedule renders as "<date> <label><memo suffix> <work_on>       *)
(* <work_off>": the work-day label when is_work_day() and the holiday      *)
(* label otherwise, the suffix "(<memo>)" when there is a memo and nothing *)
(* otherwise, and "N/A" for an absent time.                                *)
C19_RenderedText ==
    jt.step = "shown" =>
        LET ws == jt.ws
            label == IF jt.work_day THEN WorkDayLabel ELSE HolidayLabel
            suffix == IF ws.memo.some THEN "(" \o ws.memo.str \o ")" ELSE ""
            on == IF ws.work_on_time = None THEN "N/A" ELSE to_rfc3339(ws.work_on_time)
            off == IF ws.work_off_time = None THEN "N/A" ELSE to_rfc3339(ws.work_off_time)
        IN  /\ jt.text = ws.date \o " " \o label \o suffix \o " " \o on \o " " \o off
            /\ (/\ ws.date = "2023-01-03"
                /\ ws.work_on_time = 2 * SecondsPerDay + HMS(9, 0, 0)
                /\ ws.work_off_time = 2 * SecondsPerDay + HMS(18, 0, 0)
                /\ ~ws.memo.some)
               => jt.text = "2023-01-03 work-day 2023-01-03T09:00:00+08:00 2023-01-03T18:00:00+08:00"
            /\ (/\ ws.date = "2023-01-03"
                /\ ws.work_on_time = None
                /\ ws.work_off_time = None
                /\ ws.memo = [some |-> TRUE, str |-> "New Year"])
               => jt.text = "2023-01-03 holiday(New Year) N/A N/A"

C19_Witness ==
    /\ jt.step = "shown"
    /\ jt.ws.memo.some
    /\ jt.ws.work_on_time = None
    /\ jt.ws.work_off_time # None
    /\ jt.text = "2023-01-03 work-day(makeup) N/A 2023-01-03T18:00:00+08:00"

(* C20: from_json takes the date from the part of "Date" before the "T";   *)
(* a time is present exactly when ShiftSchedule.WorkOnTime or WorkOffTime  *)
(* is a string (null gives an absent time); the memo is present exactly    *)
(* when CalendarEvent.EventMemo is a string, and a null CalendarEvent      *)
(* gives no memo.                                                          *)
C20_FromJsonFields ==
    jt.step \in {"built", "checked", "shown"} =>
        LET json == jt.json
            ws == jt.ws
            on == Field(json.ShiftSchedule, "WorkOnTime")
            off == Field(json.ShiftSchedule, "WorkOffTime")
        IN  /\ json.Date.kind = "string"
            /\ SubSeq(json.Date.str, 1, Len(ws.date) + 1) = ws.date \o "T"
            /\ \A i \in 1..Len(ws.date) : Char(ws.date, i) # "T"
            /\ ws.work_on_time # None <=> on.kind = "string"
            /\ ws.work_off_time # None <=> off.kind = "string"
            /\ on.kind = "string" => ws.work_on_time = ParseRfc3339(on.str)
            /\ off.kind = "string" => ws.work_off_time = ParseRfc3339(off.str)
            /\ ws.memo.some <=> (/\ json.CalendarEvent.kind = "object"
                                 /\ json.CalendarEvent.EventMemo.kind = "string")
            /\ ws.memo.some => ws.memo.str = json.CalendarEvent.EventMemo.str
            /\ json.CalendarEvent.kind = "null" => ~ws.memo.some

C20_Witness ==
    /\ jt.step = "built"
    /\ jt.json.Date = JStr("0103T00T00")
    /\ jt.ws.date = "0103"
    /\ jt.json.ShiftSchedule.kind = "object"
    /\ jt.json.ShiftSchedule.WorkOnTime.kind = "null"
    /\ jt.ws.work_on_time = None
    /\ jt.ws.work_off_time = 2 * SecondsPerDay + HMS(18, 0, 0)
    /\ jt.json.CalendarEvent.kind = "null"
    /\ ~jt.ws.memo.some

(* C21: within one cycle of the daily loop the events occur only in the    *)
(* order login, schedule fetch, punch-in phase, punch-out phase, rollover  *)
(* wait: no PunchOut is submitted before the PunchIn submission or skip    *)
(* decision of the cycle, at most one PunchIn and one PunchOut are         *)
(* submitted, and the rollover wait begins only after the punch-out phase  *)
(* has finished or the day was found to be no work day.                    *)
C21_CycleOrder ==
    InCycle =>
        LET started(k) == log.slept[k] \/ log.calls[k] > 0 \/ log.outcome[k] # "none"
            decided(k) == log.outcome[k] # "none"
        IN  /\ log.logins <= 1
            /\ log.fetches <= 1
            /\ log.fetches = 1 => (log.logins = 1 /\ auth_data)
            /\ log.computed > 0 => log.fetches = 1
            /\ started("PunchIn") => log.computed = 2
            /\ started("PunchOut") => decided("PunchIn")
            /\ pc \in {"punch_in", "sleep_in", "send_in"} => ~started("PunchOut")
            /\ \A k \in PunchTypes : log.calls[k] <= 1
            /\ pc \in {"rollover", "rollover_sleep"}
                  => \/ log.ended = "not_work_day" /\ log.computed = 0
                     \/ decided("PunchIn") /\ decided("PunchOut")

C21_Witness ==
    /\ InCycle
    /\ cycle = 2
    /\ pc = "rollover_sleep"
    /\ log.logins = 1
    /\ log.fetches = 1
    /\ log.calls["PunchIn"] = 1
    /\ log.calls["PunchOut"] = 1

(* C22: when the current time read at the start of a punch phase equals    *)
(* the computed target, the phase is skipped and punch_card is not         *)
(* invoked: a punch is attempted only when that time is strictly before    *)
(* the target.                                                             *)
C22_EqualTargetIsSkipped ==
    (InCycle /\ log.computed = 2) =>
        \A k \in PunchTypes :
            /\ (PhaseRead(k) /\ local_now = Target(k))
                  => (log.outcome[k] = "skipped" /\ log.calls[k] = 0 /\ ~log.slept[k])
            /\ (PhaseRead(k) /\ (pc # AfterPc(k) \/ log.slept[k] \/ log.calls[k] > 0))
                  => local_now < Target(k)

C22_Witness ==
    /\ InCycle
    /\ pc = "punch_out"
    /\ local_now = punch_in_time
    /\ log.outcome["PunchIn"] = "skipped"
    /\ log.calls["PunchIn"] = 0

====
